---- MODULE Spec2Model ----
(***************************************************************************)
(* State machine of the fold-automation client: the App component's        *)
(* state (src/src/App.tsx), the UploadZone input collector and its Run     *)
(* button (src/unnamed/part_003, the UploadZone that takes fastaText),     *)
(* the SequencePage navigation buttons (src/unnamed/part_002) and the      *)
(* predictStructures call (src/src/lib/api.ts, lines 82-119).              *)
(*                                                                         *)
(* Strings are sequences of one-character strings.  Numbers with one       *)
(* decimal (gamma, bp weight) are held in tenths.  selectedIndex is        *)
(* 0-based as in the code; results[k] of the code is results[k+1] here.    *)
(***************************************************************************)
EXTENDS Integers, Sequences, FiniteSets, TLC

VARIABLES
    files,          \* App.tsx:40  File[] (each file is its name)
    fastaText,      \* App.tsx:41
    results,        \* App.tsx:42
    loading,        \* App.tsx:43
    error,          \* App.tsx:44
    selectedIndex,  \* App.tsx:45
    gamma,          \* App.tsx:46  (tenths)
    engine,         \* App.tsx:47
    bpWeight,       \* App.tsx:48  (tenths)
    pending,        \* requests POSTed by fetch and not yet settled
    lastResponse,   \* the response delivered to the last request, if any
    runPresses,     \* number of presses of the Run button
    lastPress,      \* what was on screen at the last press of Run
    submits,        \* number of handleRun calls that passed its guard
    netCalls,       \* number of fetch calls made
    download,       \* the file the last press of Export TSV produced
    lastOp          \* the last handler run and what it was given

vars == <<files, fastaText, results, loading, error, selectedIndex,
          gamma, engine, bpWeight, pending, lastResponse,
          runPresses, lastPress, submits, netCalls, download, lastOp>>

\* written only by the specifications that follow single handlers
aux == <<download, lastOp>>

NULL == "null"
UNDEFINED == "undefined"

(* ---------------------------- bounds ---------------------------------- *)
MaxFiles == 2
MaxIncoming == 2
MaxRecords == 2
MaxRunPresses == 2

(* ------------------------- string helpers ------------------------------ *)
Whitespace == {" ", "\n", "\t"}

lowerChar(c) ==
    CASE c = "A" -> "a" [] c = "F" -> "f" [] c = "S" -> "s" [] c = "T" -> "t"
      [] c = "N" -> "n" [] c = "X" -> "x" [] c = "B" -> "b" [] c = "C" -> "c"
      [] c = "H" -> "h" [] c = "I" -> "i" [] c = "G" -> "g" [] c = "L" -> "l"
      [] c = "O" -> "o" [] c = "W" -> "w"
      [] OTHER -> c

toLowerCase(s) == [k \in 1..Len(s) |-> lowerChar(s[k])]

RECURSIVE trimStart(_)
trimStart(s) ==
    IF s # <<>> /\ Head(s) \in Whitespace THEN trimStart(Tail(s)) ELSE s

RECURSIVE trimEnd(_)
trimEnd(s) ==
    IF s # <<>> /\ s[Len(s)] \in Whitespace
    THEN trimEnd(SubSeq(s, 1, Len(s) - 1)) ELSE s

trim_noop(s) == s

trim(s) == trimEnd(trimStart(s))

\* f.name.split('.').pop(): the text after the last '.', the whole name
\* when it holds no '.'
splitPop(name) ==
    LET dots == {k \in 1..Len(name) : name[k] = "."}
    IN  IF dots = {} THEN name
        ELSE LET last == CHOOSE k \in dots : \A j \in dots : j <= k
             IN  SubSeq(name, last + 1, Len(name))

ACCEPTED == { <<".", "f", "a", "s", "t", "a">>, <<".", "f", "a">>,
              <<".", "f", "n", "a">>, <<".", "f", "f", "n">> }

accepts_caseSensitive(name) == (<<".">> \o splitPop(name)) \in ACCEPTED

accepts(name) == (<<".">> \o toLowerCase(splitPop(name))) \in ACCEPTED

\* Number.prototype.toString for a value held in tenths
numToString(t) ==
    LET a == IF t < 0 THEN 0 - t ELSE t
        sign == IF t < 0 THEN "-" ELSE ""
    IN  IF a % 10 = 0 THEN sign \o ToString(a \div 10)
        ELSE sign \o ToString(a \div 10) \o "." \o ToString(a % 10)

\* v === null, v === undefined, for a value of any type
isNull(v) == ToString(v) = ToString(NULL)
isUndefined(v) == ToString(v) = ToString(UNDEFINED)
nullish(v) == isNull(v) \/ isUndefined(v)

\* Array.prototype.join: null and undefined elements give the empty string
RECURSIVE join(_, _)
join(strs, sep) ==
    IF strs = <<>> THEN ""
    ELSE IF Len(strs) = 1 THEN strs[1]
    ELSE strs[1] \o sep \o join(Tail(strs), sep)

\* the string join makes of an element that is a string, null or undefined
textCell(v) == IF nullish(v) THEN "" ELSE v
\* the same for an integer (length), and for a number held in tenths (mfe)
intCell(v) == IF nullish(v) THEN "" ELSE ToString(v)
isEmptyString(v) == ToString(v) = ToString("")
numCell(v) == IF nullish(v) \/ isEmptyString(v) THEN "" ELSE numToString(v)

Max(a, b) == IF a >= b THEN a ELSE b
Min(a, b) == IF a <= b THEN a ELSE b

(* --------------------------- input domains ----------------------------- *)
FileNames == { <<"a", ".", "F", "a">>, <<"c", ".", "t", "x", "t">> }

\* names offered to the drop zone when the collector is followed alone
UploadNames == { <<"a", ".", "F", "a">>,
                 <<"B", ".", "F", "A", "S", "T", "A">>,
                 <<"f", "a">>,
                 <<"a", ".", "f", "a", ".", "t", "x", "t">>,
                 <<"c", ".", "t", "x", "t">> }

TextValues == { <<>>, <<" ">>, <<" ", "A">> }

GammaValues == {60, 65}
EngineValues == {"BL", "CONTRAfold", "RNAfold"}   \* App.tsx:180-182
EngineInputs == {"BL", "RNAfold"}
BpWeightValues == {20, 21}

Keys == {"ArrowUp", "ArrowLeft", "ArrowDown", "ArrowRight", "Enter"}

SeqsUpTo(S, n) == UNION { [1..k -> S] : k \in 0..n }

\* SequenceResult values the service may return (mfe in tenths)
RecOk == [fasta_file |-> "A.fa", seq_id |-> "s1", sequence |-> "GCAU",
          length |-> 4, mfe |-> -123, mfe_structure |-> "(..)",
          centroid_structure |-> "....", error |-> NULL]
RecErr == [fasta_file |-> "B.fa", seq_id |-> "s2", sequence |-> NULL,
           length |-> 0, mfe |-> NULL, mfe_structure |-> NULL,
           centroid_structure |-> NULL,
           error |-> "invalid characters at position 4"]
RecZero == [fasta_file |-> "A.fa", seq_id |-> "s3", sequence |-> "A",
            length |-> 1, mfe |-> 0, mfe_structure |-> ".",
            centroid_structure |-> ".", error |-> NULL]
Records == {RecOk, RecErr, RecZero}

\* a record whose optional keys sequence and error are missing
RecBare == [fasta_file |-> "C.fa", seq_id |-> "s4", sequence |-> UNDEFINED,
            length |-> 7, mfe |-> NULL, mfe_structure |-> NULL,
            centroid_structure |-> NULL, error |-> UNDEFINED]
ViewRecords == {RecOk, RecErr, RecZero, RecBare}

\* What the service (or the transport) may answer to one POST
Responses ==
    { [kind |-> "network"] }
    \cup { [kind |-> "http", ok |-> FALSE, status |-> 500, body |-> b] :
             b \in { [json |-> FALSE],
                     [json |-> TRUE, detail |-> "bad input"],
                     [json |-> TRUE, detail |-> UNDEFINED],
                     [json |-> TRUE, detail |-> NULL] } }
    \cup { [kind |-> "http", ok |-> TRUE, status |-> 200,
            body |-> [json |-> FALSE]] }
    \cup { [kind |-> "http", ok |-> TRUE, status |-> 200,
            body |-> [json |-> TRUE, data |-> d]] :
             d \in SeqsUpTo(Records, MaxRecords) }

(* ------------------------------ Init ----------------------------------- *)
Init ==
    /\ files = <<>>
    /\ fastaText = <<>>
    /\ results = <<>>
    /\ loading = FALSE
    /\ error = NULL
    /\ selectedIndex = 0
    /\ gamma = 60
    /\ engine = "BL"
    /\ bpWeight = 20
    /\ pending = <<>>
    /\ lastResponse = [kind |-> "none"]
    /\ runPresses = 0
    /\ lastPress = [pressed |-> FALSE]
    /\ submits = 0
    /\ netCalls = 0
    /\ download = [made |-> FALSE]
    /\ lastOp = [op |-> "none"]

(* --------------------------- UploadZone -------------------------------- *)
hasInput_filesOnly == Len(files) > 0

hasInput == Len(files) > 0 \/ Len(trim(fastaText)) > 0

RunDisabled_noLoading == ~hasInput

RunDisabled_lockedAfterError == ~hasInput \/ loading \/ error # NULL

RunDisabled == ~hasInput \/ loading

addFiles(incoming) ==
    LET arr == SelectSeq(incoming, accepts)
    IN  /\ Len(files) + Len(arr) <= MaxFiles
        /\ IF Len(arr) = 0
           THEN UNCHANGED files
           ELSE files' = files \o arr
        /\ UNCHANGED <<fastaText, results, loading, error, selectedIndex,
                       gamma, engine, bpWeight, pending, lastResponse,
                       runPresses, lastPress, submits, netCalls>>

removeFile_byName(i) ==
    /\ files' = SelectSeq(files, LAMBDA f : f # files[i + 1])
    /\ UNCHANGED <<fastaText, results, loading, error, selectedIndex,
                   gamma, engine, bpWeight, pending, lastResponse,
                   runPresses, lastPress, submits, netCalls>>

removeFile(i) ==
    /\ files' = [k \in 1..(Len(files) - 1) |->
                    IF k - 1 < i THEN files[k] ELSE files[k + 1]]
    /\ UNCHANGED <<fastaText, results, loading, error, selectedIndex,
                   gamma, engine, bpWeight, pending, lastResponse,
                   runPresses, lastPress, submits, netCalls>>

onFastaTextChange_clearsError(v) ==
    /\ fastaText' = v
    /\ error' = NULL
    /\ UNCHANGED <<files, results, loading, selectedIndex,
                   gamma, engine, bpWeight, pending, lastResponse,
                   runPresses, lastPress, submits, netCalls>>

onFastaTextChange(v) ==
    /\ fastaText' = v
    /\ UNCHANGED <<files, results, loading, error, selectedIndex,
                   gamma, engine, bpWeight, pending, lastResponse,
                   runPresses, lastPress, submits, netCalls>>

(* ------------------------- configuration ------------------------------- *)
setGamma(v) ==
    /\ gamma' = v
    /\ UNCHANGED <<files, fastaText, results, loading, error, selectedIndex,
                   engine, bpWeight, pending, lastResponse,
                   runPresses, lastPress, submits, netCalls>>

setEngine(v) ==
    /\ engine' = v
    /\ UNCHANGED <<files, fastaText, results, loading, error, selectedIndex,
                   gamma, bpWeight, pending, lastResponse,
                   runPresses, lastPress, submits, netCalls>>

setBpWeight(v) ==
    /\ bpWeight' = v
    /\ UNCHANGED <<files, fastaText, results, loading, error, selectedIndex,
                   gamma, engine, pending, lastResponse,
                   runPresses, lastPress, submits, netCalls>>

(* ------------------------ predictStructures ---------------------------- *)
\* The FormData bodies predictStructures POSTs, in order: always one.
buildForm(fs, text, g, e, w) ==
    [files |-> fs, fasta_text |-> text, gamma |-> numToString(g),
     engine |-> e, bp_weight |-> numToString(w)]

predictStructures_perFile(fs, text, g, e, w) ==
    IF fs = <<>> THEN << buildForm(fs, text, g, e, w) >>
    ELSE [k \in 1..Len(fs) |-> buildForm(<<fs[k]>>, text, g, e, w)]

predictStructures(fs, text, g, e, w) == << buildForm(fs, text, g, e, w) >>

settle_dropErrored(resp) ==
    IF resp.kind = "network" THEN <<"throw", "Failed to fetch">>
    ELSE IF ~resp.ok
         THEN LET detail == "HTTP " \o ToString(resp.status)
              IN  IF resp.body.json /\ resp.body.detail \notin {UNDEFINED, NULL}
                  THEN <<"throw", resp.body.detail>>
                  ELSE <<"throw", detail>>
         ELSE IF resp.body.json
              THEN <<"ok", SelectSeq(resp.body.data,
                                     LAMBDA r : r.error = NULL)>>
              ELSE <<"throw", "Unexpected token < in JSON at position 0">>

settle_parseErrorWins(resp) ==
    IF resp.kind = "network" THEN <<"throw", "Failed to fetch">>
    ELSE IF ~resp.ok
         THEN IF ~resp.body.json
              THEN <<"throw", "Unexpected token < in JSON at position 0">>
              ELSE IF resp.body.detail \notin {UNDEFINED, NULL}
                   THEN <<"throw", resp.body.detail>>
                   ELSE <<"throw", "HTTP " \o ToString(resp.status)>>
         ELSE IF resp.body.json THEN <<"ok", resp.body.data>>
              ELSE <<"throw", "Unexpected token < in JSON at position 0">>

settle_emptyIsError(resp) ==
    IF resp.kind = "network" THEN <<"throw", "Failed to fetch">>
    ELSE IF ~resp.ok
         THEN LET detail == "HTTP " \o ToString(resp.status)
              IN  IF resp.body.json /\ resp.body.detail \notin {UNDEFINED, NULL}
                  THEN <<"throw", resp.body.detail>>
                  ELSE <<"throw", detail>>
         ELSE IF resp.body.json
              THEN IF resp.body.data = <<>>
                   THEN <<"throw", "No sequences found">>
                   ELSE <<"ok", resp.body.data>>
              ELSE <<"throw", "Unexpected token < in JSON at position 0">>

\* How the promise of predictStructures settles for a response:
\* <<"ok", data>> when it resolves, <<"throw", message>> when it rejects.
settle(resp) ==
    IF resp.kind = "network" THEN <<"throw", "Failed to fetch">>
    ELSE IF ~resp.ok
         THEN LET detail == "HTTP " \o ToString(resp.status)
              IN  IF resp.body.json /\ resp.body.detail \notin {UNDEFINED, NULL}
                  THEN <<"throw", resp.body.detail>>
                  ELSE <<"throw", detail>>
         ELSE IF resp.body.json THEN <<"ok", resp.body.data>>
              ELSE <<"throw", "Unexpected token < in JSON at position 0">>

(* ------------------------------ App ------------------------------------ *)
\* handleRun up to its await (App.tsx:50-57)
noInputGuard == Len(files) = 0 /\ Len(trim(fastaText)) = 0

handleRun_noIndexReset ==
    IF noInputGuard
    THEN UNCHANGED <<files, fastaText, results, loading, error,
                     selectedIndex, gamma, engine, bpWeight, pending,
                     lastResponse, submits, netCalls>>
    ELSE LET posts == predictStructures(files, fastaText, gamma, engine,
                                        bpWeight)
         IN  /\ loading' = TRUE
             /\ error' = NULL
             /\ results' = <<>>
             /\ UNCHANGED selectedIndex
             /\ pending' = pending \o posts
             /\ netCalls' = netCalls + Len(posts)
             /\ submits' = submits + 1
             /\ lastResponse' = [kind |-> "none"]
             /\ UNCHANGED <<files, fastaText, gamma, engine, bpWeight>>

handleRun_keepResults ==
    IF noInputGuard
    THEN UNCHANGED <<files, fastaText, results, loading, error,
                     selectedIndex, gamma, engine, bpWeight, pending,
                     lastResponse, submits, netCalls>>
    ELSE LET posts == predictStructures(files, fastaText, gamma, engine,
                                        bpWeight)
         IN  /\ loading' = TRUE
             /\ error' = NULL
             /\ UNCHANGED results
             /\ selectedIndex' = 0
             /\ pending' = pending \o posts
             /\ netCalls' = netCalls + Len(posts)
             /\ submits' = submits + 1
             /\ lastResponse' = [kind |-> "none"]
             /\ UNCHANGED <<files, fastaText, gamma, engine, bpWeight>>

handleRun_keepError ==
    IF noInputGuard
    THEN UNCHANGED <<files, fastaText, results, loading, error,
                     selectedIndex, gamma, engine, bpWeight, pending,
                     lastResponse, submits, netCalls>>
    ELSE LET posts == predictStructures(files, fastaText, gamma, engine,
                                        bpWeight)
         IN  /\ loading' = TRUE
             /\ UNCHANGED error
             /\ results' = <<>>
             /\ selectedIndex' = 0
             /\ pending' = pending \o posts
             /\ netCalls' = netCalls + Len(posts)
             /\ submits' = submits + 1
             /\ lastResponse' = [kind |-> "none"]
             /\ UNCHANGED <<files, fastaText, gamma, engine, bpWeight>>

handleRun_clearInputs ==
    IF noInputGuard
    THEN UNCHANGED <<files, fastaText, results, loading, error,
                     selectedIndex, gamma, engine, bpWeight, pending,
                     lastResponse, submits, netCalls>>
    ELSE LET posts == predictStructures(files, fastaText, gamma, engine,
                                        bpWeight)
         IN  /\ loading' = TRUE
             /\ error' = NULL
             /\ results' = <<>>
             /\ selectedIndex' = 0
             /\ pending' = pending \o posts
             /\ netCalls' = netCalls + Len(posts)
             /\ submits' = submits + 1
             /\ lastResponse' = [kind |-> "none"]
             /\ files' = <<>>
             /\ fastaText' = <<>>
             /\ UNCHANGED <<gamma, engine, bpWeight>>

handleRun ==
    IF noInputGuard
    THEN UNCHANGED <<files, fastaText, results, loading, error,
                     selectedIndex, gamma, engine, bpWeight, pending,
                     lastResponse, submits, netCalls>>
    ELSE LET posts == predictStructures(files, fastaText, gamma, engine,
                                        bpWeight)
         IN  /\ loading' = TRUE
             /\ error' = NULL
             /\ results' = <<>>
             /\ selectedIndex' = 0
             /\ pending' = pending \o posts
             /\ netCalls' = netCalls + Len(posts)
             /\ submits' = submits + 1
             /\ lastResponse' = [kind |-> "none"]
             /\ UNCHANGED <<files, fastaText, gamma, engine, bpWeight>>

\* A press of the Run button (part_003:161-163): a disabled button
\* dispatches no click.
ClickRun ==
    /\ runPresses < MaxRunPresses
    /\ runPresses' = runPresses + 1
    /\ lastPress' = [pressed |-> TRUE, loading |-> loading,
                     index |-> selectedIndex]
    /\ IF RunDisabled
       THEN UNCHANGED <<files, fastaText, results, loading, error,
                        selectedIndex, gamma, engine, bpWeight, pending,
                        lastResponse, submits, netCalls>>
       ELSE handleRun

Resolve_dropIfChanged(resp) ==
    /\ pending # <<>>
    /\ pending' = Tail(pending)
    /\ lastResponse' = resp
    /\ LET r == settle(resp)
       IN  IF r[1] = "ok"
           THEN /\ results' = IF Head(pending) = buildForm(files, fastaText,
                                      gamma, engine, bpWeight)
                               THEN r[2] ELSE results
                /\ UNCHANGED error
           ELSE error' = r[2] /\ UNCHANGED results
    /\ loading' = FALSE
    /\ UNCHANGED <<files, fastaText, selectedIndex, gamma, engine, bpWeight,
                   runPresses, lastPress, submits, netCalls>>

Resolve_resultsFirst(resp) ==
    /\ pending # <<>>
    /\ pending' = Tail(pending)
    /\ lastResponse' = resp
    /\ LET r == settle(resp)
       IN  IF r[1] = "ok"
           THEN results' = r[2] /\ UNCHANGED <<error, loading>>
           ELSE error' = r[2] /\ loading' = FALSE /\ UNCHANGED results
    /\ UNCHANGED <<files, fastaText, selectedIndex, gamma, engine, bpWeight,
                   runPresses, lastPress, submits, netCalls>>

Resolve_noFinally(resp) ==
    /\ pending # <<>>
    /\ pending' = Tail(pending)
    /\ lastResponse' = resp
    /\ LET r == settle(resp)
       IN  IF r[1] = "ok"
           THEN results' = r[2] /\ loading' = FALSE /\ UNCHANGED error
           ELSE error' = r[2] /\ UNCHANGED <<results, loading>>
    /\ UNCHANGED <<files, fastaText, selectedIndex, gamma, engine, bpWeight,
                   runPresses, lastPress, submits, netCalls>>

\* The fetch of the oldest pending request settles with resp and handleRun
\* resumes after its await (App.tsx:57-63); the state updates of the one
\* continuation are rendered together
Resolve(resp) ==
    /\ pending # <<>>
    /\ pending' = Tail(pending)
    /\ lastResponse' = resp
    /\ LET r == settle(resp)
       IN  IF r[1] = "ok"
           THEN results' = r[2] /\ UNCHANGED error
           ELSE error' = r[2] /\ UNCHANGED results
    /\ loading' = FALSE
    /\ UNCHANGED <<files, fastaText, selectedIndex, gamma, engine, bpWeight,
                   runPresses, lastPress, submits, netCalls>>

hasResults == Len(results) > 0

\* results[selectedIndex] or null (App.tsx:83); an index outside the array
\* reads undefined
current ==
    IF hasResults
    THEN IF selectedIndex + 1 \in DOMAIN results
         THEN [tag |-> "record", record |-> results[selectedIndex + 1]]
         ELSE [tag |-> UNDEFINED]
    ELSE [tag |-> NULL]

KeyDown_noClamp(key) ==
    /\ IF Len(results) = 0 THEN UNCHANGED selectedIndex
       ELSE IF key \in {"ArrowUp", "ArrowLeft"}
            THEN selectedIndex' = Max(0, selectedIndex - 1)
       ELSE IF key \in {"ArrowDown", "ArrowRight"}
            THEN selectedIndex' = selectedIndex + 1
       ELSE UNCHANGED selectedIndex
    /\ UNCHANGED <<files, fastaText, results, loading, error,
                   gamma, engine, bpWeight, pending, lastResponse,
                   runPresses, lastPress, submits, netCalls>>

KeyDown_noEmptyGuard(key) ==
    /\ IF key \in {"ArrowUp", "ArrowLeft"}
       THEN selectedIndex' = Max(0, selectedIndex - 1)
       ELSE IF key \in {"ArrowDown", "ArrowRight"}
            THEN selectedIndex' = Min(Len(results) - 1, selectedIndex + 1)
       ELSE UNCHANGED selectedIndex
    /\ UNCHANGED <<files, fastaText, results, loading, error,
                   gamma, engine, bpWeight, pending, lastResponse,
                   runPresses, lastPress, submits, netCalls>>

\* the window keydown handler (App.tsx:68-77)
KeyDown(key) ==
    /\ IF Len(results) = 0 THEN UNCHANGED selectedIndex
       ELSE IF key \in {"ArrowUp", "ArrowLeft"}
            THEN selectedIndex' = Max(0, selectedIndex - 1)
       ELSE IF key \in {"ArrowDown", "ArrowRight"}
            THEN selectedIndex' = Min(Len(results) - 1, selectedIndex + 1)
       ELSE UNCHANGED selectedIndex
    /\ UNCHANGED <<files, fastaText, results, loading, error,
                   gamma, engine, bpWeight, pending, lastResponse,
                   runPresses, lastPress, submits, netCalls>>

ClickSequence_offByOne(i) ==
    /\ hasResults
    /\ i \in 0..(Len(results) - 1)
    /\ selectedIndex' = i + 1
    /\ UNCHANGED <<files, fastaText, results, loading, error,
                   gamma, engine, bpWeight, pending, lastResponse,
                   runPresses, lastPress, submits, netCalls>>

\* a click on entry i of the sequence list (App.tsx:219-233)
ClickSequence(i) ==
    /\ hasResults
    /\ i \in 0..(Len(results) - 1)
    /\ selectedIndex' = i
    /\ UNCHANGED <<files, fastaText, results, loading, error,
                   gamma, engine, bpWeight, pending, lastResponse,
                   runPresses, lastPress, submits, netCalls>>

\* SequencePage is rendered when !loading && current (App.tsx:388)
SequencePageShown == ~loading /\ current.tag = "record"

\* Previous button (part_002:307-309, App.tsx:393)
ClickPrev ==
    /\ SequencePageShown
    /\ selectedIndex # 0
    /\ selectedIndex' = Max(0, selectedIndex - 1)
    /\ UNCHANGED <<files, fastaText, results, loading, error,
                   gamma, engine, bpWeight, pending, lastResponse,
                   runPresses, lastPress, submits, netCalls>>

\* Next button (part_002:325-327, App.tsx:394)
ClickNext ==
    /\ SequencePageShown
    /\ selectedIndex # Len(results) - 1
    /\ selectedIndex' = Min(Len(results) - 1, selectedIndex + 1)
    /\ UNCHANGED <<files, fastaText, results, loading, error,
                   gamma, engine, bpWeight, pending, lastResponse,
                   runPresses, lastPress, submits, netCalls>>

\* which parts of the page are rendered (App.tsx:219, 275, 306, 329, 365,
\* 388, 399)
View ==
    [ sequenceList |-> hasResults,
      errorBanner |-> error # NULL,
      exportButton |-> hasResults,
      metrics |-> hasResults,
      loadingView |-> loading,
      sequencePage |-> SequencePageShown,
      emptyState |-> (~loading /\ ~hasResults /\ error = NULL) ]

(* ------------------------------- badge --------------------------------- *)
\* String.prototype.includes
includes(str, m) ==
    \E k \in 1..(Len(str) - Len(m) + 1) : SubSeq(str, k, k + Len(m) - 1) = m

HIGHTIA == <<"h", "i", "g", "h", "t", "i", "a">>
LOWTIA == <<"l", "o", "w", "t", "i", "a">>

inferBadge_separately(r) ==
    LET a == toLowerCase(r.seq_id)
        b == toLowerCase(r.fasta_file)
    IN  IF includes(a, HIGHTIA) \/ includes(b, HIGHTIA)
        THEN [label |-> "HighTIA", color |-> "var(--high-tia)"]
        ELSE IF includes(a, LOWTIA) \/ includes(b, LOWTIA)
        THEN [label |-> "LowTIA", color |-> "var(--low-tia)"]
        ELSE [label |-> NULL]

\* part_002:13-18; null is [label |-> NULL]
inferBadge(r) ==
    LET id == toLowerCase(r.seq_id) \o toLowerCase(r.fasta_file)
    IN  IF includes(id, HIGHTIA)
        THEN [label |-> "HighTIA", color |-> "var(--high-tia)"]
        ELSE IF includes(id, LOWTIA)
        THEN [label |-> "LowTIA", color |-> "var(--low-tia)"]
        ELSE [label |-> NULL]

\* the badge SequencePage shows for the current record (part_002:64, 91)
badge ==
    IF SequencePageShown THEN inferBadge(current.record) ELSE [label |-> NULL]

\* records whose seq_id and fasta_file are held character by character
BadgeSeqIds ==
    { <<"s">>, <<"H", "I", "G", "H", "t", "i", "a">>, <<"x", "L", "o", "w">>,
      <<"l", "o", "w", "t", "i", "a", "H", "i", "g", "h">> }
BadgeFiles ==
    { <<"a", ".", "f", "a">>, <<"T", "I", "A", ".", "f", "a">>,
      <<"L", "o", "w", "T", "i", "a", ".", "f", "a">> }
BadgeRecords ==
    { [fasta_file |-> f, seq_id |-> i, sequence |-> NULL, length |-> 0,
       mfe |-> NULL, mfe_structure |-> NULL, centroid_structure |-> NULL,
       error |-> NULL] : i \in BadgeSeqIds, f \in BadgeFiles }

(* ---------------------------- summary stats ---------------------------- *)
notNull(m) == ~isNull(m)

\* results.map(r => r.mfe).filter(m => m !== null)
mfesOf_nullAsZero(rs) ==
    [k \in 1..Len(rs) |-> IF isNull(rs[k].mfe) THEN 0 ELSE rs[k].mfe]
mfesOf(rs) == SelectSeq([k \in 1..Len(rs) |-> rs[k].mfe], notNull)
mfes == mfesOf(results)

\* [...new Set(results.map(r => r.fasta_file))]
fileNamesOf_okOnly(rs) ==
    { rs[k].fasta_file : k \in { j \in 1..Len(rs) : nullish(rs[j].error) } }
fileNamesOf(rs) == { rs[k].fasta_file : k \in 1..Len(rs) }
fileNames == fileNamesOf(results)

\* the em dash of the metrics, written in ASCII
UNAVAILABLE == "--"

\* Math.min(...ms), Math.max(...ms) in a template literal: NaN as soon as
\* one argument is undefined
mathMin(ms) ==
    IF \E k \in DOMAIN ms : isUndefined(ms[k]) THEN "NaN"
    ELSE LET S == { ms[k] : k \in DOMAIN ms }
         IN  numToString(CHOOSE m \in S : \A n \in S : m <= n)
mathMax(ms) ==
    IF \E k \in DOMAIN ms : isUndefined(ms[k]) THEN "NaN"
    ELSE LET S == { ms[k] : k \in DOMAIN ms }
         IN  numToString(CHOOSE m \in S : \A n \in S : m >= n)

\* the four metric values (App.tsx:331-336)
Metrics ==
    [ Sequences |-> ToString(Len(results)),
      FilesProcessed |-> ToString(Cardinality(fileNames)),
      MinMFE |-> IF Len(mfes) # 0 THEN mathMin(mfes) ELSE UNAVAILABLE,
      MaxMFE |-> IF Len(mfes) # 0 THEN mathMax(mfes) ELSE UNAVAILABLE ]

(* ----------------------------- export ---------------------------------- *)
tsvHeader ==
    << "fasta_file", "seq_id", "sequence", "length", "mfe",
       "mfe_structure", "centroid_structure", "error" >>

\* x || ''
orEmpty_falsy(v) ==
    IF nullish(v) \/ ToString(v) = "0" \/ isEmptyString(v) THEN "" ELSE v

\* x ?? ''
orEmpty(v) == IF nullish(v) THEN "" ELSE v

\* the eight strings join makes of one row (App.tsx:15-24)
rowCells_templated(r) ==
    LET str(v) == IF isNull(v) THEN "null"
                  ELSE IF isUndefined(v) THEN "undefined" ELSE v
    IN  << str(r.fasta_file), str(r.seq_id), str(r.sequence),
           intCell(r.length),
           IF nullish(r.mfe) THEN str(r.mfe) ELSE numToString(r.mfe),
           str(r.mfe_structure), str(r.centroid_structure), str(r.error) >>

rowCells(r) ==
    << textCell(r.fasta_file), textCell(r.seq_id),
       textCell(orEmpty(r.sequence)), intCell(r.length),
       numCell(orEmpty(r.mfe)), textCell(orEmpty(r.mfe_structure)),
       textCell(orEmpty(r.centroid_structure)), textCell(orEmpty(r.error)) >>

toTSV_reversed(rs) ==
    join(<<join(tsvHeader, "\t")>>
           \o [k \in 1..Len(rs) |-> join(rowCells(rs[Len(rs) + 1 - k]), "\t")],
         "\n")

\* App.tsx:9-27
toTSV(rs) ==
    join(<<join(tsvHeader, "\t")>>
           \o [k \in 1..Len(rs) |-> join(rowCells(rs[k]), "\t")], "\n")

\* a press of Export TSV, shown while hasResults (App.tsx:306-308, 29-37);
\* `at` is the selection and the pasted text the press happened under, and
\* `prev` those of the export before it
ClickExport_stampsSelection ==
    /\ hasResults
    /\ download' = [made |-> TRUE,
                    text |-> toTSV(results) \o "\n" \o ToString(selectedIndex),
                    type |-> "text/tab-separated-values",
                    name |-> "fold-results.tsv",
                    at |-> <<selectedIndex, fastaText>>,
                    prev |-> IF download.made THEN <<download.at>> ELSE <<>>]
    /\ UNCHANGED <<files, fastaText, results, loading, error, selectedIndex,
                   gamma, engine, bpWeight, pending, lastResponse,
                   runPresses, lastPress, submits, netCalls>>

ClickExport ==
    /\ hasResults
    /\ download' = [made |-> TRUE, text |-> toTSV(results),
                    type |-> "text/tab-separated-values",
                    name |-> "fold-results.tsv",
                    at |-> <<selectedIndex, fastaText>>,
                    prev |-> IF download.made THEN <<download.at>> ELSE <<>>]
    /\ UNCHANGED <<files, fastaText, results, loading, error, selectedIndex,
                   gamma, engine, bpWeight, pending, lastResponse,
                   runPresses, lastPress, submits, netCalls>>

Next ==
    \/ \E incoming \in SeqsUpTo(FileNames, MaxIncoming) \ {<<>>} :
          addFiles(incoming) /\ UNCHANGED aux
    \/ \E i \in 0..(Len(files) - 1) : removeFile(i) /\ UNCHANGED aux
    \/ \E v \in TextValues : onFastaTextChange(v) /\ UNCHANGED aux
    \/ \E v \in GammaValues : setGamma(v) /\ UNCHANGED aux
    \/ \E v \in EngineInputs : setEngine(v) /\ UNCHANGED aux
    \/ \E v \in BpWeightValues : setBpWeight(v) /\ UNCHANGED aux
    \/ ClickRun /\ UNCHANGED aux
    \/ \E resp \in Responses : Resolve(resp) /\ UNCHANGED aux
    \/ \E key \in Keys : KeyDown(key) /\ UNCHANGED aux
    \/ \E i \in 0..(MaxRecords - 1) : ClickSequence(i) /\ UNCHANGED aux
    \/ ClickPrev /\ UNCHANGED aux
    \/ ClickNext /\ UNCHANGED aux

Spec == Init /\ [][Next]_vars

(* The input collector followed alone: its three handlers, each recorded   *)
(* in lastOp with what it was given.                                       *)
\* The app with the configuration left at its defaults, under the
\* assumption that the service answers, or the transport fails, for every
\* request in flight
NextLive ==
    \/ \E incoming \in SeqsUpTo(FileNames, MaxIncoming) \ {<<>>} :
          addFiles(incoming) /\ UNCHANGED aux
    \/ \E i \in 0..(Len(files) - 1) : removeFile(i) /\ UNCHANGED aux
    \/ \E v \in TextValues : onFastaTextChange(v) /\ UNCHANGED aux
    \/ ClickRun /\ UNCHANGED aux
    \/ \E resp \in Responses : Resolve(resp) /\ UNCHANGED aux
    \/ \E key \in Keys : KeyDown(key) /\ UNCHANGED aux
    \/ \E i \in 0..(MaxRecords - 1) : ClickSequence(i) /\ UNCHANGED aux
    \/ ClickPrev /\ UNCHANGED aux
    \/ ClickNext /\ UNCHANGED aux

SpecLive ==
    /\ Init
    /\ [][NextLive]_vars
    /\ WF_vars(\E resp \in Responses : Resolve(resp) /\ UNCHANGED aux)

NextInput ==
    \/ \E incoming \in SeqsUpTo(UploadNames, MaxIncoming) \ {<<>>} :
          /\ addFiles(incoming)
          /\ lastOp' = [op |-> "addFiles", incoming |-> incoming,
                        before |-> files]
          /\ UNCHANGED download
    \/ \E i \in 0..(Len(files) - 1) :
          /\ removeFile(i)
          /\ lastOp' = [op |-> "removeFile", i |-> i, before |-> files]
          /\ UNCHANGED download
    \/ \E v \in TextValues :
          /\ onFastaTextChange(v)
          /\ lastOp' = [op |-> "onFastaTextChange", before |-> fastaText]
          /\ UNCHANGED download

SpecInput == Init /\ [][NextInput]_vars

(* The result view followed alone, from the state a successful response   *)
(* of text pasted into the collector leaves: navigation and export, each  *)
(* recorded in lastOp.                                                     *)
InitView ==
    \E d \in SeqsUpTo(ViewRecords, MaxRecords) :
        /\ files = <<>>
        /\ fastaText = <<" ", "A">>
        /\ results = d
        /\ loading = FALSE
        /\ error = NULL
        /\ selectedIndex = 0
        /\ gamma = 60
        /\ engine = "BL"
        /\ bpWeight = 20
        /\ pending = <<>>
        /\ lastResponse = [kind |-> "http", ok |-> TRUE, status |-> 200,
                           body |-> [json |-> TRUE, data |-> d]]
        /\ runPresses = 1
        /\ lastPress = [pressed |-> TRUE, loading |-> FALSE, index |-> 0]
        /\ submits = 1
        /\ netCalls = 1
        /\ download = [made |-> FALSE]
        /\ lastOp = [op |-> "none"]

NextView ==
    \/ \E key \in Keys :
          /\ KeyDown(key)
          /\ lastOp' = [op |-> "keydown", key |-> key,
                        before |-> selectedIndex]
          /\ UNCHANGED download
    \/ \E i \in 0..(MaxRecords - 1) :
          /\ ClickSequence(i)
          /\ lastOp' = [op |-> "select", j |-> i, before |-> selectedIndex]
          /\ UNCHANGED download
    \/ /\ ClickPrev
       /\ lastOp' = [op |-> "prev", before |-> selectedIndex]
       /\ UNCHANGED download
    \/ /\ ClickNext
       /\ lastOp' = [op |-> "next", before |-> selectedIndex]
       /\ UNCHANGED download
    \/ /\ ClickExport
       /\ lastOp' = [op |-> "export", before |-> selectedIndex]
    \/ \E v \in TextValues :
          /\ onFastaTextChange(v)
          /\ lastOp' = [op |-> "onFastaTextChange", before |-> fastaText]
          /\ UNCHANGED download

SpecView == InitView /\ [][NextView]_vars

(* The record page followed alone over records whose names matter to the  *)
(* badge: navigation only, recorded in lastOp.                             *)
InitBadge ==
    \E d \in SeqsUpTo(BadgeRecords, MaxRecords) :
        /\ files = <<>>
        /\ fastaText = <<" ", "A">>
        /\ results = d
        /\ loading = FALSE
        /\ error = NULL
        /\ selectedIndex = 0
        /\ gamma = 60
        /\ engine = "BL"
        /\ bpWeight = 20
        /\ pending = <<>>
        /\ lastResponse = [kind |-> "http", ok |-> TRUE, status |-> 200,
                           body |-> [json |-> TRUE, data |-> d]]
        /\ runPresses = 1
        /\ lastPress = [pressed |-> TRUE, loading |-> FALSE, index |-> 0]
        /\ submits = 1
        /\ netCalls = 1
        /\ download = [made |-> FALSE]
        /\ lastOp = [op |-> "none"]

NextBadge ==
    \/ \E key \in Keys :
          /\ KeyDown(key)
          /\ lastOp' = [op |-> "keydown", key |-> key,
                        before |-> selectedIndex]
          /\ UNCHANGED download
    \/ \E i \in 0..(MaxRecords - 1) :
          /\ ClickSequence(i)
          /\ lastOp' = [op |-> "select", j |-> i, before |-> selectedIndex]
          /\ UNCHANGED download
    \/ /\ ClickPrev
       /\ lastOp' = [op |-> "prev", before |-> selectedIndex]
       /\ UNCHANGED download
    \/ /\ ClickNext
       /\ lastOp' = [op |-> "next", before |-> selectedIndex]
       /\ UNCHANGED download

SpecBadge == InitBadge /\ [][NextBadge]_vars

(* ====================== properties of the client ======================= *)

\* a step in which the Run button was pressed
RunPressed == runPresses' = runPresses + 1
\* a step in which handleRun passed its guard
SubmitAccepted == submits' = submits + 1
\* a step in which the pending fetch settled
Settled == pending # <<>> /\ pending' = Tail(pending) /\ submits' = submits

IsFailure(resp) ==
    \/ resp.kind = "network"
    \/ resp.kind = "http" /\ (~resp.ok \/ ~resp.body.json)
IsSuccess(resp) == resp.kind = "http" /\ resp.ok /\ resp.body.json

\* C1: at most one prediction request is outstanding, and a press of Run
\* while a request is in flight starts no network call and leaves results,
\* error, selection index and loading unchanged.
C1_AtMostOneInFlight ==
    [][ /\ Len(pending') <= 1
        /\ (RunPressed /\ loading) =>
              UNCHANGED <<results, error, selectedIndex, loading,
                          pending, netCalls>> ]_vars

\* Run was pressed a second time while the first request was in flight
C1_Witness ==
    /\ lastPress.pressed /\ lastPress.loading
    /\ loading /\ Len(pending) = 1 /\ netCalls = 1

\* C2: whenever results holds n >= 1 records the selection index is within
\* 0..n-1, and with no record the current record is null.
C2_IndexInRange ==
    /\ Len(results) >= 1 =>
          /\ selectedIndex \in 0..(Len(results) - 1)
          /\ current = [tag |-> "record", record |-> results[selectedIndex + 1]]
    /\ Len(results) = 0 => current.tag = NULL

\* the last of two records is selected
C2_Witness == Len(results) = 2 /\ selectedIndex = 1 /\ ~loading

\* C3: in the state right after a request resolves successfully the
\* selection index is 0, whatever it was before the submit.
C3_SuccessResetsIndex ==
    [][ (Settled /\ IsSuccess(lastResponse')) => selectedIndex' = 0 ]_vars

\* a resubmission pressed with index 1 selected has resolved successfully
C3_Witness ==
    /\ submits = 2 /\ runPresses = 2 /\ lastPress.index = 1
    /\ IsSuccess(lastResponse) /\ Len(results) = 2 /\ selectedIndex = 0

\* C4: a failed request (network error, non-2xx, unparsable body) leaves
\* one error message and no results; error non-null implies results empty.
C4_ErrorMeansNoResults ==
    /\ error # NULL => Len(results) = 0
    /\ IsFailure(lastResponse) => (error # NULL /\ ~loading)

\* a resubmission from a state with results has failed
C4_Witness ==
    /\ submits = 2 /\ IsFailure(lastResponse) /\ error # NULL
    /\ lastResponse.kind = "http" /\ lastResponse.ok

\* C5: after a successful resolution results is exactly the record list of
\* the response, in response order, and the session is Ready.
C5_ResultsAreResponse ==
    IsSuccess(lastResponse) =>
        /\ results = lastResponse.body.data
        /\ ~loading
        /\ error = NULL

\* a response of two different records, an errored one first, was installed
C5_Witness ==
    /\ IsSuccess(lastResponse)
    /\ lastResponse.body.data = <<RecErr, RecOk>>
    /\ results = <<RecErr, RecOk>>

\* C6 as stated: right after an accepted submit the file list and the
\* pasted text are empty.
C6_InputsClearedAtSubmit ==
    [][ SubmitAccepted => (files' = <<>> /\ fastaText' = <<>>) ]_vars

\* C6 amended: an accepted submit leaves the file list and the pasted text
\* as they were; they still hold the submitted input while Submitting.
C6_InputsKeptAtSubmit ==
    [][ SubmitAccepted =>
          /\ files' = files /\ fastaText' = fastaText
          /\ loading'
          /\ Head(pending').files = files'
          /\ Head(pending').fasta_text = fastaText' ]_vars

\* a request is in flight and the submitted files and text are still held
C6_Witness ==
    /\ loading /\ Len(files) = 2 /\ fastaText = <<" ", "A">>
    /\ Len(pending) = 1 /\ Head(pending).files = files

\* no file is held and the pasted text is empty or whitespace only
NoInput ==
    /\ Len(files) = 0
    /\ \A k \in DOMAIN fastaText : fastaText[k] \in Whitespace

\* C7: a press of Run with no input makes no network call and leaves
\* loading, error, results and the selection index unchanged.
C7_NoInputNoOp ==
    [][ (RunPressed /\ NoInput) =>
          UNCHANGED <<loading, error, results, selectedIndex,
                      pending, netCalls, submits>> ]_vars

\* Run was pressed and never accepted (so pressed without input), with
\* whitespace-only text
C7_Witness ==
    /\ runPresses >= 1 /\ submits = 0 /\ netCalls = 0
    /\ fastaText = <<" ">> /\ files = <<>>

\* C8: the number of network calls equals the number of accepted submits;
\* the one call of a submit carries all its files; settling a request,
\* failed or not, makes no call.
C8_OneCallPerSubmit ==
    [][ /\ netCalls' = submits'
        /\ SubmitAccepted =>
              /\ netCalls' = netCalls + 1
              /\ Len(pending') = Len(pending) + 1
              /\ pending'[Len(pending')].files = files
        /\ Settled => (netCalls' = netCalls /\ pending' = <<>>) ]_vars

\* a submit of two files has failed and nothing was sent again
C8_Witness ==
    /\ submits = 1 /\ netCalls = 1 /\ Len(files) = 2
    /\ IsFailure(lastResponse) /\ pending = <<>>

\* C9: the request is a snapshot taken at submission: it carries the
\* inputs and configuration of that moment, no later change of them
\* changes it, and its response is installed whatever changed meanwhile.
C9_RequestIsSnapshot ==
    [][ /\ SubmitAccepted =>
              pending' = <<buildForm(files, fastaText, gamma, engine,
                                     bpWeight)>>
        /\ (pending # <<>> /\ ~Settled) => pending' = pending
        /\ (Settled /\ IsSuccess(lastResponse')) =>
              results' = lastResponse'.body.data ]_vars

\* results of a request were installed although gamma, engine, weight,
\* files and text all differ from what the request carried
C9_Witness ==
    /\ IsSuccess(lastResponse) /\ results = <<RecOk>> /\ submits = 1
    /\ gamma = 65 /\ engine = "RNAfold" /\ bpWeight = 21
    /\ files = <<>> /\ fastaText = <<" ">>

AcceptedFileNames == { <<"a", ".", "F", "a">> }

\* C10: hasInput holds exactly when an accepted file is in the list or the
\* pasted text has a non-whitespace character; the Run button is enabled,
\* and handleRun passes its guard, under that same condition.
C10_HasInputIff ==
    LET present ==
          \/ \E k \in DOMAIN files : files[k] \in AcceptedFileNames
          \/ \E k \in DOMAIN fastaText : fastaText[k] \notin Whitespace
    IN  /\ hasInput <=> present
        /\ ~noInputGuard <=> present
        /\ ~loading => (~RunDisabled <=> present)

\* text only: no file held, the pasted text has a non-whitespace character
C10_Witness ==
    /\ files = <<>> /\ fastaText = <<" ", "A">> /\ hasInput /\ ~RunDisabled

\* the name has a '.', and the text from its last '.' on, lower-cased, is
\* on the allow-list
ExtensionAllowed(name) ==
    \E k \in 1..Len(name) :
        /\ name[k] = "."
        /\ \A j \in (k + 1)..Len(name) : name[j] # "."
        /\ toLowerCase(SubSeq(name, k, Len(name))) \in ACCEPTED

\* C11: addFiles keeps the entries held, appends after them exactly the
\* candidates whose extension is on the allow-list (case-insensitively), in
\* candidate order, and changes nothing else.
C11_AddFilesAppendsAllowed ==
    [][ lastOp'.op = "addFiles" =>
          /\ files' = files \o SelectSeq(lastOp'.incoming, ExtensionAllowed)
          /\ UNCHANGED <<fastaText, results, loading, error, selectedIndex,
                         gamma, engine, bpWeight, pending, netCalls>> ]_vars

ExpectedLine(r) ==
    CASE r.seq_id = "s1" -> "A.fa\ts1\tGCAU\t4\t-12.3\t(..)\t....\t"
      [] r.seq_id = "s2" ->
           "B.fa\ts2\t\t0\t\t\t\tinvalid characters at position 4"
      [] r.seq_id = "s3" -> "A.fa\ts3\tA\t1\t0\t.\t.\t"
      [] r.seq_id = "s4" -> "C.fa\ts4\t\t7\t\t\t\t"

ExpectedHeader ==
    "fasta_file\tseq_id\tsequence\tlength\tmfe\tmfe_structure\tcentroid_structure\terror"

RECURSIVE ExpectedTSV(_)
ExpectedTSV(rs) ==
    IF rs = <<>> THEN ExpectedHeader
    ELSE ExpectedTSV(SubSeq(rs, 1, Len(rs) - 1))
           \o "\n" \o ExpectedLine(rs[Len(rs)])

\* C13: toTSV gives the header line with the 8 columns in the fixed order,
\* then one tab-separated line per record in results order; for no record
\* it gives exactly the header line.
C13_TsvLayout ==
    /\ toTSV(<<>>) = ExpectedHeader
    /\ toTSV(results) = ExpectedTSV(results)
    /\ download.made => download.text = ExpectedTSV(results)

\* two different records were exported, the errored one first
C13_Witness ==
    /\ lastOp.op = "export" /\ download.made
    /\ Len(results) = 2
    /\ results[1].seq_id = "s2" /\ results[2].seq_id = "s1"

\* the optional fields of a record, by column of the export
OptionalColumns(r) ==
    << <<3, r.sequence>>, <<5, r.mfe>>, <<6, r.mfe_structure>>,
       <<7, r.centroid_structure>>, <<8, r.error>> >>

\* C14: every optional field that is null or missing is exported as the
\* empty string, and no exported field is the text "null" or "undefined".
C14_AbsentFieldsEmpty ==
    \A k \in DOMAIN results :
        LET cells == rowCells(results[k])
            opt == OptionalColumns(results[k])
        IN  /\ Len(cells) = 8
            /\ \A c \in DOMAIN opt :
                  nullish(opt[c][2]) => cells[opt[c][1]] = ""
            /\ \A j \in DOMAIN cells : cells[j] \notin {"null", "undefined"}

\* a record with null fields and one with missing keys were exported
C14_Witness ==
    /\ lastOp.op = "export" /\ download.made
    /\ Len(results) = 2
    /\ results[1].seq_id = "s4" /\ results[2].seq_id = "s2"

\* C15: an export made again on the same ResultSet, whatever navigation
\* and text input happened since the export before it, gives the same text.
C15_ExportRepeatable ==
    [][ (download.made /\ lastOp'.op = "export" /\ results' = results)
          => /\ download'.text = download.text
             /\ download'.type = download.type
             /\ download'.name = download.name ]_vars

\* a second export, made under another selection and another pasted text
\* than the first
C15_Witness ==
    /\ lastOp.op = "export" /\ download.made
    /\ download.prev # <<>>
    /\ download.prev[1][1] # download.at[1]
    /\ download.prev[1][2] # download.at[2]

\* the MFEs that are present, as a set of numbers
PresentMFEs ==
    { results[k].mfe : k \in { j \in DOMAIN results : ~nullish(results[j].mfe) } }

\* C16: the energy range is the least and the greatest of the present
\* MFEs; with no present MFE both ends are the unavailable marker, and
\* never a number.
C16_EnergyRange ==
    /\ PresentMFEs # {} =>
          /\ \E m \in PresentMFEs :
                /\ \A n \in PresentMFEs : m <= n
                /\ Metrics.MinMFE = numToString(m)
          /\ \E m \in PresentMFEs :
                /\ \A n \in PresentMFEs : m >= n
                /\ Metrics.MaxMFE = numToString(m)
    /\ PresentMFEs = {} =>
          /\ Metrics.MinMFE = UNAVAILABLE /\ Metrics.MaxMFE = UNAVAILABLE
          /\ Metrics.MinMFE # "0" /\ Metrics.MaxMFE # "0"

\* two records without an MFE are shown
C16_Witness ==
    /\ Len(results) = 2
    /\ PresentMFEs = {}
    /\ Metrics.MinMFE = "--"
    /\ lastOp.op = "keydown"

\* the positions of the records of d that carry their own error
ErroredIn(d) == { k \in DOMAIN d : ~nullish(d[k].error) }

\* C17: after a successful response the session is Ready with every record
\* of the response, errored ones included, in results; errored records are
\* counted in Sequences and their file names in Files Processed, and the
\* ends of the energy range come from records with an MFE only.  For the
\* response <<ok record of MFE -12.3 from A.fa, errored record from B.fa>>
\* the metrics are 2, 2, -12.3 and -12.3.
C17_ErroredRecordKept ==
    IsSuccess(lastResponse) =>
        LET d == lastResponse.body.data
            withMfe == { k \in DOMAIN d : ~nullish(d[k].mfe) }
            ends == { numToString(d[k].mfe) : k \in withMfe }
                       \cup {UNAVAILABLE}
        IN  /\ error = NULL /\ ~loading
            /\ Len(results) = Len(d)
            /\ \A k \in ErroredIn(d) :
                  /\ results[k].seq_id = d[k].seq_id
                  /\ results[k].error = d[k].error
            /\ Metrics.Sequences = ToString(Len(d))
            /\ Metrics.FilesProcessed =
                  ToString(Cardinality({ d[k].fasta_file : k \in DOMAIN d }))
            /\ Metrics.MinMFE \in ends /\ Metrics.MaxMFE \in ends
            /\ [k \in DOMAIN d |-> d[k].seq_id] = <<"s1", "s2">> =>
                  Metrics = [Sequences |-> "2", FilesProcessed |-> "2",
                             MinMFE |-> "-12.3", MaxMFE |-> "-12.3"]

\* two files were submitted and the response of one ok and one errored
\* record was installed
C17_Witness ==
    /\ Len(files) = 2
    /\ IsSuccess(lastResponse)
    /\ Len(results) = 2
    /\ results[1].seq_id = "s1" /\ results[2].seq_id = "s2"
    /\ ErroredIn(results) = {2}
    /\ error = NULL /\ ~loading

\* C18: on a key press, Up and Left move the selection one back and Down
\* and Right one forward; with no results the index stays as it is, at
\* index 0 a step back stays at 0 and at the last index a step forward
\* stays at the last index.
C18_KeyboardNavigation ==
    [][ lastOp'.op = "keydown" =>
          LET key == lastOp'.key
              n == Len(results)
              i == selectedIndex
          IN  /\ n = 0 => selectedIndex' = i
              /\ (n > 0 /\ key \in {"ArrowUp", "ArrowLeft"}) =>
                    selectedIndex' = (IF i = 0 THEN 0 ELSE i - 1)
              /\ (n > 0 /\ key \in {"ArrowDown", "ArrowRight"}) =>
                    selectedIndex' = (IF i = n - 1 THEN n - 1 ELSE i + 1)
              /\ results' = results ]_vars

\* ArrowDown was pressed at the last of two records
C18_Witness ==
    /\ lastOp.op = "keydown" /\ lastOp.key = "ArrowDown"
    /\ Len(results) = 2
    /\ lastOp.before = 1 /\ selectedIndex = 1

\* C19: with n >= 1 records and index i, Previous gives max(0, i-1), Next
\* gives min(n-1, i+1) and a click on entry j gives j, which lies in
\* 0..n-1; with no records no entry can be clicked and the index stays.
C19_PrevNextSelect ==
    [][ LET n == Len(results)
            i == selectedIndex
        IN  /\ lastOp'.op = "prev" =>
                  n >= 1 /\ selectedIndex' = (IF i - 1 < 0 THEN 0 ELSE i - 1)
            /\ lastOp'.op = "next" =>
                  n >= 1 /\ selectedIndex' =
                               (IF i + 1 > n - 1 THEN n - 1 ELSE i + 1)
            /\ lastOp'.op = "select" =>
                  /\ n >= 1
                  /\ selectedIndex' =
                        (IF lastOp'.j < 0 THEN 0
                         ELSE IF lastOp'.j > n - 1 THEN n - 1 ELSE lastOp'.j)
            /\ (n = 0 /\ lastOp'.op \in {"prev", "next", "select"}) =>
                  selectedIndex' = i ]_vars

\* the second entry of the list was clicked while the first was selected
C19_Witness ==
    /\ lastOp.op = "select" /\ lastOp.j = 1 /\ lastOp.before = 0
    /\ Len(results) = 2 /\ selectedIndex = 1

\* the session state the three state variables stand for; Idle is the
\* state before the first accepted submit
SessionState ==
    IF loading THEN "Submitting"
    ELSE IF error # NULL THEN "Failed"
    ELSE IF submits = 0 THEN "Idle" ELSE "Ready"

Transitions ==
    { <<"Idle", "Submitting">>, <<"Submitting", "Ready">>,
      <<"Submitting", "Failed">>, <<"Ready", "Submitting">>,
      <<"Failed", "Submitting">> }

\* C20: the session changes state along Idle -> Submitting, Submitting ->
\* Ready, Submitting -> Failed, Ready -> Submitting and Failed -> Submitting
\* only, and a press of Run with input in Ready or Failed is accepted and
\* leads to Submitting.
C20_SessionTransitions ==
    [][ /\ SessionState' # SessionState =>
              <<SessionState, SessionState'>> \in Transitions
        /\ (RunPressed /\ SessionState \in {"Ready", "Failed"} /\ ~NoInput) =>
              (SubmitAccepted /\ SessionState' = "Submitting") ]_vars

\* a second submit was accepted, from Ready with the second of two records
\* selected, while files and pasted text were both there
C20_Witness ==
    /\ SessionState = "Submitting"
    /\ submits = 2 /\ netCalls = 2
    /\ lastPress.pressed /\ ~lastPress.loading /\ lastPress.index = 1
    /\ Len(files) = 1 /\ ~NoInput /\ fastaText # <<>>

\* str holds the marker m at some offset, letter by letter
HoldsMarker(str, m) ==
    \E off \in 0..Len(str) :
        /\ off + Len(m) <= Len(str)
        /\ \A j \in 1..Len(m) : str[off + j] = m[j]

\* C21: the badge of the shown record is HighTIA when its lower-cased seq_id
\* or its lower-cased fasta_file holds 'hightia', else LowTIA when one of
\* them holds 'lowtia', else none.
C21_BadgeByEitherName ==
    SequencePageShown =>
        LET r == current.record
            a == toLowerCase(r.seq_id)
            b == toLowerCase(r.fasta_file)
        IN  badge.label =
              (IF HoldsMarker(a, HIGHTIA) \/ HoldsMarker(b, HIGHTIA)
               THEN "HighTIA"
               ELSE IF HoldsMarker(a, LOWTIA) \/ HoldsMarker(b, LOWTIA)
               THEN "LowTIA" ELSE NULL)

\* C29: the badge of the shown record is HighTIA when the lower-cased seq_id
\* followed at once by the lower-cased fasta_file holds 'hightia', else
\* LowTIA when that text holds 'lowtia', else none; a marker that begins in
\* seq_id and ends in fasta_file tags the record.
C29_BadgeOnConcatenation ==
    SequencePageShown =>
        LET r == current.record
            a == toLowerCase(r.seq_id)
            b == toLowerCase(r.fasta_file)
            cat == [k \in 1..(Len(a) + Len(b)) |->
                       IF k <= Len(a) THEN a[k] ELSE b[k - Len(a)]]
        IN  /\ badge.label =
                 (IF HoldsMarker(cat, HIGHTIA) THEN "HighTIA"
                  ELSE IF HoldsMarker(cat, LOWTIA) THEN "LowTIA" ELSE NULL)
            /\ (r.seq_id = <<"x", "L", "o", "w">>
                  /\ r.fasta_file = <<"T", "I", "A", ".", "f", "a">>) =>
                  badge.label = "LowTIA"

\* the record xLow of TIA.fa, which holds 'lowtia' in neither name, was
\* reached with ArrowDown and is shown with a badge
C29_Witness ==
    /\ lastOp.op = "keydown" /\ lastOp.key = "ArrowDown" /\ lastOp.before = 0
    /\ selectedIndex = 1 /\ SequencePageShown
    /\ current.record.seq_id = <<"x", "L", "o", "w">>
    /\ current.record.fasta_file = <<"T", "I", "A", ".", "f", "a">>
    /\ ~HoldsMarker(toLowerCase(current.record.seq_id), LOWTIA)
    /\ ~HoldsMarker(toLowerCase(current.record.fasta_file), LOWTIA)
    /\ badge.label = "LowTIA"

\* C22: loading is never true together with an error, nor together with a
\* non-empty results; the step in which the request settles ends loading
\* and shows the results or the error in that same step.
C22_FlagsExclusive ==
    /\ [](~(loading /\ error # NULL) /\ ~(loading /\ Len(results) > 0))
    /\ [][ Settled =>
             /\ ~loading'
             /\ IsSuccess(lastResponse') =>
                   (Len(results') = Len(lastResponse'.body.data)
                      /\ error' = NULL)
             /\ IsFailure(lastResponse') =>
                   (error' # NULL /\ Len(results') = 0) ]_vars

\* a resubmission has resolved with two records
C22_Witness ==
    /\ submits = 2 /\ netCalls = 2
    /\ IsSuccess(lastResponse) /\ Len(results) = 2
    /\ ~loading /\ error = NULL
    /\ lastPress.index = 0 /\ ~lastPress.loading

\* C23: a step that is neither a press of Run nor the settling of a
\* request starts no network call and leaves loading, error and results
\* unchanged; when such a step moves the selection index it changes
\* nothing else.
C23_OnlySubmitChangesSession ==
    [][ (~RunPressed /\ ~Settled) =>
          /\ UNCHANGED <<loading, error, pending, netCalls, submits,
                         lastResponse>>
          /\ Len(results') = Len(results)
          /\ \A k \in DOMAIN results : results'[k].seq_id = results[k].seq_id
          /\ selectedIndex' # selectedIndex =>
                UNCHANGED <<files, fastaText, gamma, engine, bpWeight>> ]_vars

\* after a failed request the inputs and the configuration were all edited
\* and the error is still shown
C23_Witness ==
    /\ error # NULL /\ ~loading /\ submits = 1 /\ netCalls = 1
    /\ IsFailure(lastResponse)
    /\ Len(files) = 2 /\ fastaText = <<" ", "A">>
    /\ gamma # 60 /\ engine # "BL" /\ bpWeight # 20

\* C25: after a non-2xx response the error is the detail of the body when
\* the body parses and has one, and 'HTTP <status>' otherwise, also when
\* the body does not parse.
C25_ErrorMessage ==
    (lastResponse.kind = "http" /\ ~lastResponse.ok) =>
        LET b == lastResponse.body
        IN  /\ ~loading /\ Len(results) = 0
            /\ (b.json /\ b.detail = "bad input") => error = "bad input"
            /\ (b.json /\ b.detail \in {UNDEFINED, NULL}) =>
                  error = "HTTP 500"
            /\ ~b.json => error = "HTTP 500"

\* a resubmission was answered 500 with a body that does not parse
C25_Witness ==
    /\ submits = 2
    /\ lastResponse.kind = "http" /\ ~lastResponse.ok
    /\ lastResponse.status = 500 /\ ~lastResponse.body.json
    /\ error = "HTTP 500"

\* C26: while a request is in flight results is empty, error is null and
\* the selection index is 0; a resubmission that fails ends with an error
\* and empty results.
C26_ClearedAtSubmit ==
    /\ loading => (Len(results) = 0 /\ error = NULL /\ selectedIndex = 0)
    /\ (submits >= 2 /\ IsFailure(lastResponse)) =>
          (Len(results) = 0 /\ error # NULL /\ ~loading /\ selectedIndex = 0)

\* a resubmission pressed from Ready with the second record selected has
\* failed
C26_Witness ==
    /\ submits = 2 /\ lastPress.index = 1 /\ ~lastPress.loading
    /\ IsFailure(lastResponse)
    /\ error # NULL /\ Len(results) = 0

\* the page before anything was submitted
IdleView ==
    [ sequenceList |-> FALSE, errorBanner |-> FALSE, exportButton |-> FALSE,
      metrics |-> FALSE, loadingView |-> FALSE, sequencePage |-> FALSE,
      emptyState |-> TRUE ]

\* C27: after a successful response of zero records results is empty,
\* error is null, loading is false, the index is 0, there is no current
\* record and the page is the one shown before the first submit, with the
\* export button not offered.
C27_EmptyReadyIsIdle ==
    (IsSuccess(lastResponse) /\ Len(lastResponse.body.data) = 0) =>
        /\ Len(results) = 0 /\ error = NULL /\ ~loading
        /\ selectedIndex = 0
        /\ current.tag = NULL
        /\ View = IdleView

\* a resubmission from Ready with two records was answered with no record
C27_Witness ==
    /\ IsSuccess(lastResponse) /\ Len(lastResponse.body.data) = 0
    /\ submits = 2 /\ lastPress.index = 1
    /\ View.emptyState /\ ~View.exportButton

\* C24: a request in flight stays in flight until it is answered, and every
\* state with loading true is followed by one with loading false, in Ready
\* or Failed; the step that settles the request ends loading whether the
\* answer is a success or a failure.
C24_SubmittingEnds ==
    /\ [](loading => pending # <<>>)
    /\ [][ (pending # <<>> /\ pending' # pending) =>
             \/ Len(pending') > Len(pending)
             \/ (lastResponse'.kind \in {"network", "http"} /\ ~loading') ]_vars
    /\ loading ~> (~loading /\ SessionState \in {"Ready", "Failed"})

\* the second request, sent from Ready, ended in a transport failure
C24_Witness ==
    /\ submits = 2 /\ netCalls = 2 /\ pending = <<>>
    /\ lastResponse.kind = "network"
    /\ lastPress.index = 1
    /\ SessionState = "Failed"

AllowedTails ==
    { <<"f", "a", "s", "t", "a">>, <<"f", "a">>, <<"f", "n", "a">>,
      <<"f", "f", "n">> }

\* the lower-cased text after the last '.' of name, or the whole lower-cased
\* name when it has no '.', is an allowed tail
TailAllowed(name) ==
    LET low == toLowerCase(name)
    IN  \/ (\A k \in DOMAIN name : name[k] # ".") /\ low \in AllowedTails
        \/ \E k \in DOMAIN name :
              /\ name[k] = "."
              /\ \A j \in (k + 1)..Len(name) : name[j] # "."
              /\ [j \in 1..(Len(name) - k) |-> low[k + j]] \in AllowedTails

\* C28: addFiles appends exactly the candidates whose lower-cased text after
\* the last '.', or whose whole lower-cased name when it has no '.', is one
\* of fasta, fa, fna, ffn; when there is no such candidate the file list
\* stays as it was.
C28_AcceptanceRule ==
    [][ lastOp'.op = "addFiles" =>
          LET taken == SelectSeq(lastOp'.incoming, TailAllowed)
          IN  /\ files' = files \o taken
              /\ taken = <<>> => files' = files
              /\ \A k \in DOMAIN lastOp'.incoming :
                    accepts(lastOp'.incoming[k])
                       <=> TailAllowed(lastOp'.incoming[k]) ]_vars

\* the dotless name fa was appended after a.Fa and a.fa.txt was dropped
C28_Witness ==
    /\ lastOp.op = "addFiles"
    /\ lastOp.before = << <<"a", ".", "F", "a">> >>
    /\ lastOp.incoming =
          << <<"a", ".", "f", "a", ".", "t", "x", "t">>, <<"f", "a">> >>
    /\ files = << <<"a", ".", "F", "a">>, <<"f", "a">> >>

\* the positions of the records whose MFE is the number 0
ZeroMfeAt == { k \in DOMAIN results : ToString(results[k].mfe) = "0" }

\* C30: a record with MFE 0 is exported with '0' in the mfe column and
\* counts for the energy range: with it the range is available and has 0
\* between its ends, and when 0 is the only present MFE both ends are '0'.
C30_ZeroIsPresent ==
    ZeroMfeAt # {} =>
        /\ \A k \in ZeroMfeAt : rowCells(results[k])[5] = "0"
        /\ Metrics.MinMFE \in {"0", "-12.3"}
        /\ Metrics.MaxMFE = "0"
        /\ (\A k \in DOMAIN results :
               k \in ZeroMfeAt \/ nullish(results[k].mfe)) =>
              (Metrics.MinMFE = "0" /\ Metrics.MaxMFE = "0")
        /\ (download.made /\ Len(results) = 1) =>
              download.text =
                 "fasta_file\tseq_id\tsequence\tlength\tmfe\tmfe_structure\tcentroid_structure\terror\nA.fa\ts3\tA\t1\t0\t.\t.\t"

\* the record of MFE 0 was exported alone
C30_Witness ==
    /\ lastOp.op = "export" /\ download.made
    /\ Len(results) = 1 /\ ZeroMfeAt = {1}
    /\ Metrics.MinMFE = "0" /\ Metrics.MaxMFE = "0"

====
